---- MODULE Spec2Model ----
(***************************************************************************)
(* A model of alarmtify.py: the run loop of main() and the functions it    *)
(* composes (load_config, get_token_config, refresh_spotify_token,         *)
(* get_target_time / parse_target_time, wait_until_target_time,            *)
(* select_device, start_playback).                                         *)
(*                                                                         *)
(* Strings that the code takes apart (the alarm time, the text typed at a  *)
(* prompt) are sequences of one-character strings.  Instants are whole     *)
(* seconds since midnight of day 0 of a naive local calendar, as           *)
(* datetime.datetime.now() is naive.                                       *)
(***************************************************************************)
EXTENDS Integers, Sequences, FiniteSets, TLC

VARIABLES
    caller,          \* the function a behaviour enters: "main", or one function on its own
    pc,              \* position of the single thread of control
    config_file,     \* config.json as it lies on disk during the run
    config,          \* the dict json.load returned in this cycle
    missing_keys,    \* get_token_config's `missing_keys`, as it logs them
    time_input,      \* the text parse_target_time is given
    typed,           \* the texts typed at the prompt of select_device entered on its own
    last_wait,       \* the latest wait_until_target_time call: its target and when it ended
    cache,           \* the token_info held by the cache handler (None or a dict)
    issued,          \* number of access tokens the service has issued so far
    token,           \* main's local `token`: the access token sp was built with
    now,             \* the wall clock, in seconds
    target_time,     \* main's local `target_time`
    wait_from,       \* `now` as read by wait_until_target_time
    target_datetime, \* `target_datetime` as computed by wait_until_target_time
    wait_seconds,    \* `wait_seconds` as computed by wait_until_target_time
    devices,         \* the list sp.devices()['devices'] returned
    device,          \* the device select_device returned
    max_retries,     \* start_playback's parameter
    attempt,         \* start_playback's loop variable
    trace,           \* what the current cycle (or call) has done so far, in order
    last_refresh,    \* what the latest refresh_spotify_token call did
    cycles,          \* number of cycles of main's loop begun
    successes,       \* number of cycles that ran to the end of the try block
    outcome,         \* how the loop (or call) ended
    error,           \* the exception that ended it
    raised_at,       \* the position at which that exception was raised
    exit_status      \* the status the interpreter exits with

vars == <<caller, pc, config_file, config, missing_keys, time_input, typed, last_wait, cache, issued, token, now, target_time, wait_from,
          target_datetime, wait_seconds, devices, device, max_retries, attempt,
          trace, last_refresh, cycles, successes, outcome, error, raised_at,
          exit_status>>

(***************************************************************************)
(* Bounds of the model.                                                    *)
(***************************************************************************)
MaxCycles == 2      \* cycles of main's loop a behaviour may begin
MaxPrompts == 1     \* rejected inputs at the device prompt per select_device call
MaxLate == 1        \* seconds time.sleep may return late
MaxRetriesArg == 4  \* largest max_retries start_playback is entered with on its own
MaxDay == 1         \* latest calendar day the clock starts on
MaxIssued == 4      \* tokens issued before refresh_spotify_token is entered on its own
MaxDevices == 3     \* longest device list select_device is given on its own
MaxTimeLen == 5     \* longest text parse_target_time is given on its own

(***************************************************************************)
(* Constants of the program.                                               *)
(***************************************************************************)
TOKEN_CONFIG_KEYS == <<"username", "client_id", "client_secret", "redirect_uri">>
DefaultMaxRetries == 3
BackoffSeconds == 5
HoursPerDay == 24
MinutesPerHour == 60
SecondsPerMinute == 60
SecondsPerDay == HoursPerDay * MinutesPerHour * SecondsPerMinute

None == "None"      \* Python's None, for values that are otherwise strings


(***************************************************************************)
(* Python values.                                                          *)
(***************************************************************************)
\* Truth value of a config entry: None (also a key that is absent, since
\* every read is config.get(k)) and the empty string are false.
Falsy(v) == v = None \/ v = ""

Digits == {"0", "1", "2", "3", "4", "5", "6", "7", "8", "9"}
Whitespace == {" ", "\t"}

DigitVal(c) ==
    CASE c = "0" -> 0 [] c = "1" -> 1 [] c = "2" -> 2 [] c = "3" -> 3
      [] c = "4" -> 4 [] c = "5" -> 5 [] c = "6" -> 6 [] c = "7" -> 7
      [] c = "8" -> 8 [] c = "9" -> 9

RECURSIVE LStrip(_)
LStrip(s) == IF s # <<>> /\ Head(s) \in Whitespace THEN LStrip(Tail(s)) ELSE s

RECURSIVE RStrip(_)
RStrip(s) ==
    IF s # <<>> /\ s[Len(s)] \in Whitespace
    THEN RStrip(SubSeq(s, 1, Len(s) - 1))
    ELSE s

RECURSIVE DecimalValue(_, _)
DecimalValue(s, acc) ==
    IF s = <<>> THEN acc
    ELSE IF Head(s) = "_" THEN DecimalValue(Tail(s), acc)
    ELSE DecimalValue(Tail(s), 10 * acc + DigitVal(Head(s)))

\* int(s) for a str: surrounding whitespace is dropped, one sign is allowed,
\* and the rest is decimal digits, with single underscores between digits.
\* raised = TRUE stands for ValueError.
PyInt(s) ==
    LET t == RStrip(LStrip(s))
        signed == t # <<>> /\ Head(t) \in {"+", "-"}
        body == IF signed THEN Tail(t) ELSE t
        wellFormed ==
            /\ body # <<>>
            /\ \A i \in 1..Len(body) : body[i] \in Digits \cup {"_"}
            /\ body[1] \in Digits
            /\ body[Len(body)] \in Digits
            /\ \A i \in 1..(Len(body) - 1) : ~(body[i] = "_" /\ body[i + 1] = "_")
        magnitude == DecimalValue(body, 0)
    IN  IF ~wellFormed THEN [raised |-> TRUE, value |-> 0]
        ELSE [raised |-> FALSE,
              value |-> IF signed /\ Head(t) = "-" THEN 0 - magnitude ELSE magnitude]

\* s.split(sep)
RECURSIVE Split(_, _)
Split(s, sep) ==
    IF \A i \in 1..Len(s) : s[i] # sep THEN <<s>>
    ELSE LET i == CHOOSE j \in 1..Len(s) :
                      s[j] = sep /\ \A k \in 1..(j - 1) : s[k] # sep
         IN  <<SubSeq(s, 1, i - 1)>> \o Split(SubSeq(s, i + 1, Len(s)), sep)

(***************************************************************************)
(* parse_target_time                                                       *)
(***************************************************************************)
\* raised = TRUE stands for the ValueError the function logs and re-raises:
\* from the unpacking of other than two parts, from int(), or from the range
\* check.
parse_target_time(time_str) ==
    LET parts == Split(time_str, ":")
        failed == [raised |-> TRUE, hour |-> 0, minute |-> 0]
    IN  IF Len(parts) # 2 THEN failed
        ELSE LET hour == PyInt(parts[1])
                 minute == PyInt(parts[2])
             IN  IF hour.raised \/ minute.raised THEN failed
                 ELSE IF ~(0 <= hour.value /\ hour.value < HoursPerDay
                           /\ 0 <= minute.value /\ minute.value < MinutesPerHour)
                 THEN failed
                 ELSE [raised |-> FALSE, hour |-> hour.value, minute |-> minute.value]

(***************************************************************************)
(* wait_until_target_time: the arithmetic                                  *)
(***************************************************************************)
Date(dt) == dt \div SecondsPerDay

\* datetime.datetime.combine(date, datetime.time(hour, minute))
Combine(date, t) ==
    date * SecondsPerDay + (t.hour * MinutesPerHour + t.minute) * SecondsPerMinute

\* A variant that adds the day only when the combined instant is before `now`
TargetDatetime_OnlyIfBefore(t, current) ==
    LET combined == Combine(Date(current), t)
    IN  IF combined < current THEN combined + SecondsPerDay ELSE combined

\* A variant that never adds a day
TargetDatetime_NoRoll(t, current) == Combine(Date(current), t)

\* A variant that adds the day also when the combined instant is after `now`
TargetDatetime_AlwaysRoll(t, current) == Combine(Date(current), t) + SecondsPerDay

\* If the combined instant is not after `now`, a day is added.
TargetDatetime(t, current) ==
    LET combined == Combine(Date(current), t)
    IN  IF combined <= current THEN combined + SecondsPerDay ELSE combined

WaitSeconds(t, current) == TargetDatetime(t, current) - current

(***************************************************************************)
(* get_token_config                                                        *)
(***************************************************************************)
\* A variant that misses only the keys that are absent, not the empty ones
MissingKeys_OnlyAbsent(cfg) ==
    LET missing(k) == cfg[k] = None
    IN  SelectSeq(TOKEN_CONFIG_KEYS, missing)

\* A variant that stops at the first key it misses
MissingKeys_FirstOnly(cfg) ==
    LET missing(k) == Falsy(cfg[k])
        all == SelectSeq(TOKEN_CONFIG_KEYS, missing)
    IN  IF all = <<>> THEN <<>> ELSE <<Head(all)>>

\* missing_keys, in the order of TOKEN_CONFIG_KEYS
MissingKeys(cfg) ==
    LET missing(k) == Falsy(cfg[k])
    IN  SelectSeq(TOKEN_CONFIG_KEYS, missing)

(***************************************************************************)
(* The cached token and refresh_spotify_token                              *)
(***************************************************************************)
\* get_cached_token() returning None
NoToken ==
    [kind |-> "None", has_access |-> FALSE, access_token |-> 0,
     has_refresh |-> FALSE, expired |-> FALSE]

\* A token_info dict holding access token number n and a refresh token
TokenInfo(n) ==
    [kind |-> "dict", has_access |-> TRUE, access_token |-> n,
     has_refresh |-> TRUE, expired |-> FALSE]

\* A token_info dict without the 'access_token' key
NoAccessInfo ==
    [kind |-> "dict", has_access |-> FALSE, access_token |-> 0,
     has_refresh |-> TRUE, expired |-> FALSE]

\* auth_manager.is_token_expired(token_info), for a dict
is_token_expired(token_info) == token_info.expired

\* What the service may answer to get_access_token and to refresh_access_token
NewTokenOutcomes == {"SpotifyOauthError", "none", "no_access", "token"}
RefreshOutcomes == {"SpotifyOauthError", "token"}
RemoteAnswers == [new : NewTokenOutcomes, refresh : RefreshOutcomes]

\* The caches a cached token may have become after `elapsed` seconds
Aged(token_info, elapsed) ==
    {token_info} \cup
        (IF elapsed > 0 /\ token_info.kind = "dict"
         THEN {[token_info EXCEPT !.expired = TRUE]}
         ELSE {})

\* A variant that only asks whether the cache holds anything
LacksToken_OnlyNone(token_info) == token_info.kind = "None"

\* `not token_info or 'access_token' not in token_info`
LacksToken(token_info) == token_info.kind = "None" \/ ~token_info.has_access

\* refresh_spotify_token(auth_manager), with the cache holding `cached`, `n`
\* tokens issued so far and the service answering `remote`.  The result names
\* the cache afterwards, the calls made in order, the exception raised
\* ("none" when the function returns) and the value returned.
refresh_spotify_token(cached, n, remote) ==
    LET done(c, i, ev, err, res) ==
            [cache |-> c, issued |-> i, events |-> ev, error |-> err, result |-> res]
    IN  IF cached.kind = "None"
        THEN \* no cached token: request a new one, then read the cache again
             LET after == CASE remote.new = "token" -> TokenInfo(n + 1)
                            [] remote.new = "no_access" -> NoAccessInfo
                            [] OTHER -> NoToken
                 count == IF remote.new = "token" THEN n + 1 ELSE n
             IN  IF remote.new = "SpotifyOauthError"
                 THEN done(cached, n, <<"get_access_token">>, "SpotifyOauthError", 0)
                 ELSE IF LacksToken(after)
                 THEN done(after, count, <<"get_access_token">>, "TokenRetrievalFailed", 0)
                 ELSE done(after, count, <<"get_access_token">>, "none",
                           after.access_token)
        ELSE IF is_token_expired(cached)
        THEN IF ~cached.has_refresh
             THEN done(cached, n, <<"is_token_expired">>, "KeyError", 0)
             ELSE IF remote.refresh = "SpotifyOauthError"
             THEN done(cached, n, <<"is_token_expired", "refresh_access_token">>,
                       "SpotifyOauthError", 0)
             ELSE done(TokenInfo(n + 1), n + 1,
                       <<"is_token_expired", "refresh_access_token">>, "none", n + 1)
        ELSE IF ~cached.has_access
        THEN done(cached, n, <<"is_token_expired">>, "KeyError", 0)
        ELSE done(cached, n, <<"is_token_expired">>, "none", cached.access_token)

(***************************************************************************)
(* select_device                                                           *)
(***************************************************************************)
NoDevice == [id |-> None, name |-> None]

\* A variant whose default is the last device of the list
FirstMatch_OrLast(devs, key, value) ==
    IF \E i \in 1..Len(devs) : devs[i][key] = value
    THEN devs[CHOOSE i \in 1..Len(devs) :
                  /\ devs[i][key] = value
                  /\ \A j \in 1..(i - 1) : devs[j][key] # value]
    ELSE devs[Len(devs)]

\* next((d for d in devices if d[key] == value), devices[0])
FirstMatch(devs, key, value) ==
    IF \E i \in 1..Len(devs) : devs[i][key] = value
    THEN devs[CHOOSE i \in 1..Len(devs) :
                  /\ devs[i][key] = value
                  /\ \A j \in 1..(i - 1) : devs[j][key] # value]
    ELSE devs[1]

\* A variant that consults the configuration for a single device as well
SelectConfigured_NoShortcut(devs, cfg) ==
    IF ~Falsy(cfg.device_id)
    THEN [prompt |-> FALSE, device |-> FirstMatch(devs, "id", cfg.device_id)]
    ELSE IF ~Falsy(cfg.device_name)
    THEN [prompt |-> FALSE, device |-> FirstMatch(devs, "name", cfg.device_name)]
    ELSE [prompt |-> TRUE, device |-> NoDevice]

\* A variant that looks for the configured name before the configured id
SelectConfigured_NameFirst(devs, cfg) ==
    IF Len(devs) = 1 THEN [prompt |-> FALSE, device |-> devs[1]]
    ELSE IF ~Falsy(cfg.device_name)
    THEN [prompt |-> FALSE, device |-> FirstMatch(devs, "name", cfg.device_name)]
    ELSE IF ~Falsy(cfg.device_id)
    THEN [prompt |-> FALSE, device |-> FirstMatch(devs, "id", cfg.device_id)]
    ELSE [prompt |-> TRUE, device |-> NoDevice]

\* select_device for a non-empty list, up to the prompt: the device returned,
\* or prompt = TRUE when the function goes on to ask.
SelectConfigured(devs, cfg) ==
    IF Len(devs) = 1 THEN [prompt |-> FALSE, device |-> devs[1]]
    ELSE IF ~Falsy(cfg.device_id)
    THEN [prompt |-> FALSE, device |-> FirstMatch(devs, "id", cfg.device_id)]
    ELSE IF ~Falsy(cfg.device_name)
    THEN [prompt |-> FALSE, device |-> FirstMatch(devs, "name", cfg.device_name)]
    ELSE [prompt |-> TRUE, device |-> NoDevice]

\* A variant that takes the number typed as a 0-based index
PromptChoice_ZeroBased(devs, text) ==
    LET parsed == PyInt(text)
        choice == parsed.value
    IN  IF ~parsed.raised /\ 0 <= choice /\ choice < Len(devs)
        THEN [accepted |-> TRUE, device |-> devs[choice + 1]]
        ELSE [accepted |-> FALSE, device |-> NoDevice]

\* One round of the prompt loop on the text typed: the device returned, or
\* accepted = FALSE when the loop asks again (out of range, or ValueError).
PromptChoice(devs, text) ==
    LET parsed == PyInt(text)
        choice == parsed.value - 1
    IN  IF ~parsed.raised /\ 0 <= choice /\ choice < Len(devs)
        THEN [accepted |-> TRUE, device |-> devs[choice + 1]]
        ELSE [accepted |-> FALSE, device |-> NoDevice]

(***************************************************************************)
(* main: how the try block ends                                            *)
(***************************************************************************)
\* A variant that takes the error branch at its word ("Retrying...") and goes
\* round the loop again
Handler_Retrying(exc) ==
    IF exc = "KeyboardInterrupt"
    THEN [pc |-> "exit", outcome |-> "cancelled"]
    ELSE [pc |-> "load_config", outcome |-> "running"]

\* A variant whose catch-all clause also catches KeyboardInterrupt
Handler_CatchAll(exc) == [pc |-> "exit", outcome |-> "fatal"]

\* The except clauses: both log and break.
Handler(exc) ==
    IF exc = "KeyboardInterrupt"
    THEN [pc |-> "exit", outcome |-> "cancelled"]
    ELSE [pc |-> "exit", outcome |-> "fatal"]

\* A variant that breaks after a success when the configuration asks for it
AfterSuccess_ByFlag(cfg) == IF cfg.single_shot THEN "exit" ELSE "load_config"

\* The try block ran to its end: the while True loop goes round again,
\* whatever the configuration holds.
AfterSuccess(cfg) == "load_config"

\* After the break, main() returns and the script ends: status 0.
ExitStatus(how) == 0

(***************************************************************************)
(* Inputs                                                                  *)
(***************************************************************************)
\* The characters of the alarm_time strings used below
Chars(s) ==
    CASE s = "09:00" -> <<"0", "9", ":", "0", "0">>
      [] s = "24:00" -> <<"2", "4", ":", "0", "0">>
      [] s = "" -> <<>>

KeyValues == {None, "", "v"}
AlarmTimes == {None, "09:00", "24:00"}
DeviceHints ==
    {<<None, None>>, <<"d2", None>>, <<"dX", None>>, <<"dX", "n3">>,
     <<None, "n3">>, <<None, "nX">>}

\* What config.json may hold.  single_shot stands for a key the code never
\* reads.  Optional keys vary where the required keys are all there.
Configs ==
    {[username |-> "v", client_id |-> "v", client_secret |-> "v", redirect_uri |-> "v",
      alarm_time |-> a, device_id |-> h[1], device_name |-> h[2], single_shot |-> f] :
        a \in AlarmTimes, h \in DeviceHints, f \in BOOLEAN}
    \cup
    {[username |-> u, client_id |-> i, client_secret |-> s, redirect_uri |-> r,
      alarm_time |-> "09:00", device_id |-> None, device_name |-> None,
      single_shot |-> FALSE] :
        u \in KeyValues, i \in KeyValues, s \in KeyValues, r \in KeyValues}

NoConfig ==
    [username |-> None, client_id |-> None, client_secret |-> None,
     redirect_uri |-> None, alarm_time |-> None, device_id |-> None,
     device_name |-> None, single_shot |-> FALSE]

\* config.json: missing, not JSON, or holding one of Configs
ConfigFiles ==
    {[state |-> "FileNotFoundError", content |-> NoConfig],
     [state |-> "JSONDecodeError", content |-> NoConfig]}
    \cup {[state |-> "ok", content |-> c] : c \in Configs}

\* Text typed at the "Enter playback time" prompt
TypedTimes == {<<"2", "3", ":", "5", "9">>, <<"9", "h">>}

\* Text typed at the "Enter the device index" prompt
TypedChoices ==
    {<<"1">>, <<"2">>, <<"3">>, <<"9">>, <<"0">>, <<"-", "1">>, <<"x">>, <<" ", "2">>}

\* Seconds a prompt may take to be answered
PromptDelays == {0, 5}

D1 == [id |-> "d1", name |-> "n1"]
D2 == [id |-> "d2", name |-> "n2"]
D3 == [id |-> "d3", name |-> "n3"]

\* A device with the display name of D2
D4 == [id |-> "d4", name |-> "n2"]

\* What sp.devices()['devices'] may return
DeviceLists == {<<>>, <<D2>>, <<D1, D2, D3>>}

\* Every list of up to MaxDevices different devices, in every order
AnyDeviceLists ==
    {devs \in UNION {[1..n -> {D1, D2, D3, D4}] : n \in 0..MaxDevices} :
        \A i, j \in DOMAIN devs : i # j => devs[i] # devs[j]}

\* What a call of the service through sp may end in
ResumeOutcomes == {"ok", "SpotifyException", "ConnectionError"}

NoTime == [hour |-> 0, minute |-> 0]
At(day, hour, minute, second) == Combine(day, [hour |-> hour, minute |-> minute]) + second

InitialCaches ==
    {NoToken, TokenInfo(1), [TokenInfo(1) EXCEPT !.expired = TRUE],
     [TokenInfo(1) EXCEPT !.expired = TRUE, !.has_refresh = FALSE]}

NetworkEvents ==
    {"get_access_token", "refresh_access_token", "devices",
     "resume_ok", "resume_error", "resume_other"}
BlockingEvents == {"input_time", "sleep_until", "input_device", "sleep_backoff"}
ResumeEvents == {"resume_ok", "resume_error", "resume_other"}

(***************************************************************************)
(* Control                                                                 *)
(***************************************************************************)
NoRefresh == [called |-> FALSE, before |-> NoToken, events |-> <<>>,
              error |-> "none", result |-> 0]

\* An exception leaves the function the behaviour entered.  In main it reaches
\* the except clauses; after the break main returns and the process exits.
Raise(exc) ==
    /\ error' = exc
    /\ raised_at' = pc
    /\ IF caller = "main"
       THEN /\ pc' = Handler(exc).pc
            /\ outcome' = Handler(exc).outcome
            /\ exit_status' = IF Handler(exc).pc = "exit"
                              THEN <<ExitStatus(Handler(exc).outcome)>>
                              ELSE exit_status
       ELSE /\ pc' = "done"
            /\ outcome' = "raised"
            /\ exit_status' = exit_status

\* No exception: control goes on to `next` in main, and a function entered on
\* its own has returned.
GoOn(next) ==
    /\ UNCHANGED <<error, raised_at, exit_status>>
    /\ IF caller = "main"
       THEN pc' = next /\ outcome' = outcome
       ELSE pc' = "done" /\ outcome' = "returned"

(***************************************************************************)
(* Exceptions the code raises itself                                       *)
(***************************************************************************)
IncompleteTokenConfiguration == "ValueError: Incomplete token configuration"
TokenRetrievalFailed == "TokenRetrievalFailed"
InvalidTimeFormat == "ValueError: invalid time"
NoDevicesFound == "ValueError: No devices found"
MaxRetriesReached == "ValueError: Max retries reached, playback failed"

Rejected(tr) == Cardinality({i \in DOMAIN tr : tr[i] = "input_device"})

(***************************************************************************)
(* main, line by line of its try block                                     *)
(***************************************************************************)
\* config = load_config().  The locals of the iteration before are dead, each
\* being assigned again before it is read, and start the cycle as at first.
LoadConfig ==
    /\ caller = "main" /\ pc = "load_config" /\ cycles < MaxCycles
    /\ cycles' = cycles + 1
    /\ trace' = <<>>
    /\ target_time' = NoTime /\ wait_from' = 0 /\ target_datetime' = 0
    /\ wait_seconds' = 0 /\ devices' = <<>> /\ device' = NoDevice
    /\ max_retries' = 0 /\ attempt' = 0 /\ last_refresh' = NoRefresh
    /\ IF config_file.state # "ok"
       THEN Raise(config_file.state) /\ config' = config
       ELSE config' = config_file.content /\ GoOn("get_token_config")
    /\ missing_keys' = <<>> /\ time_input' = <<>> /\ typed' = <<>>
    /\ UNCHANGED <<caller, config_file, last_wait, cache, issued, token, now, successes>>

\* token_config = get_token_config(config); get_spotify_auth_manager(token_config)
GetTokenConfig ==
    /\ pc = "get_token_config"
    /\ IF MissingKeys(config) # <<>>
       THEN Raise(IncompleteTokenConfiguration)
       ELSE GoOn("refresh_spotify_token")
    /\ missing_keys' = MissingKeys(config)
    /\ UNCHANGED <<caller, config_file, time_input, typed, last_wait, config, cache, issued, token, now, target_time, wait_from,
                   target_datetime, wait_seconds, devices, device, max_retries,
                   attempt, trace, last_refresh, cycles, successes>>

\* token = refresh_spotify_token(auth_manager); sp = spotipy.Spotify(auth=token)
Authenticate ==
    /\ pc = "refresh_spotify_token"
    /\ \E remote \in RemoteAnswers :
         LET r == refresh_spotify_token(cache, issued, remote)
         IN  /\ cache' = r.cache
             /\ issued' = r.issued
             /\ trace' = trace \o r.events
             /\ last_refresh' = [called |-> TRUE, before |-> cache, events |-> r.events,
                                 error |-> r.error, result |-> r.result]
             /\ IF r.error # "none"
                THEN Raise(r.error) /\ token' = token
                ELSE GoOn("get_target_time") /\ token' = r.result
    /\ UNCHANGED <<caller, config_file, missing_keys, time_input, typed, last_wait, config, now, target_time, wait_from, target_datetime,
                   wait_seconds, devices, device, max_retries, attempt, cycles,
                   successes>>

\* target_time = get_target_time(config): the configured alarm_time, or else
\* the text typed at the prompt, parsed by parse_target_time
GetTargetTime ==
    /\ caller = "main" /\ pc = "get_target_time"
    /\ LET asks == Falsy(config.alarm_time)
       IN  \E time_text \in (IF asks THEN TypedTimes ELSE {Chars(config.alarm_time)}),
              elapsed \in (IF asks THEN PromptDelays ELSE {0}) :
             \E aged \in Aged(cache, elapsed) :
               LET parsed == parse_target_time(time_text)
               IN  /\ now' = now + elapsed
                   /\ cache' = aged
                   /\ time_input' = time_text
                   /\ trace' = IF asks THEN Append(trace, "input_time") ELSE trace
                   /\ IF parsed.raised
                      THEN Raise(InvalidTimeFormat) /\ target_time' = target_time
                      ELSE /\ GoOn("wait_until_target_time")
                           /\ target_time' = [hour |-> parsed.hour,
                                              minute |-> parsed.minute]
    /\ UNCHANGED <<caller, config_file, missing_keys, typed, last_wait, config, issued, token, wait_from, target_datetime,
                   wait_seconds, devices, device, max_retries, attempt, last_refresh,
                   cycles, successes>>

\* wait_until_target_time(target_time)
WaitUntilTargetTime ==
    /\ pc = "wait_until_target_time"
    /\ wait_from' = now
    /\ target_datetime' = TargetDatetime(target_time, now)
    /\ wait_seconds' = WaitSeconds(target_time, now)
    /\ IF WaitSeconds(target_time, now) > 0
       THEN \E late \in 0..MaxLate :
              \E aged \in Aged(cache, WaitSeconds(target_time, now) + late) :
                /\ now' = now + WaitSeconds(target_time, now) + late
                /\ cache' = aged
                /\ trace' = Append(trace, "sleep_until")
       ELSE UNCHANGED <<now, cache, trace>>
    /\ last_wait' = <<[target |-> TargetDatetime(target_time, now), ended |-> now']>>
    /\ GoOn("token_check")
    /\ UNCHANGED <<caller, config_file, missing_keys, time_input, typed, config, issued, token, target_time, devices, device,
                   max_retries, attempt, last_refresh, cycles, successes>>

\* if auth_manager.is_token_expired(auth_manager.get_cached_token()):
\*     token = refresh_spotify_token(auth_manager); sp = spotipy.Spotify(auth=token)
TokenCheck ==
    /\ caller = "main" /\ pc = "token_check"
    /\ IF cache.kind = "None"
       THEN /\ Raise("TypeError")
            /\ UNCHANGED <<cache, issued, token, trace, last_refresh>>
       ELSE IF ~is_token_expired(cache)
       THEN /\ GoOn("select_device")
            /\ trace' = Append(trace, "is_token_expired")
            /\ UNCHANGED <<cache, issued, token, last_refresh>>
       ELSE \E remote \in RemoteAnswers :
              LET r == refresh_spotify_token(cache, issued, remote)
              IN  /\ cache' = r.cache
                  /\ issued' = r.issued
                  /\ trace' = Append(trace, "is_token_expired") \o r.events
                  /\ last_refresh' = [called |-> TRUE, before |-> cache,
                                      events |-> r.events, error |-> r.error,
                                      result |-> r.result]
                  /\ IF r.error # "none"
                     THEN Raise(r.error) /\ token' = token
                     ELSE GoOn("select_device") /\ token' = r.result
    /\ UNCHANGED <<caller, config_file, missing_keys, time_input, typed, last_wait, config, now, target_time, wait_from, target_datetime,
                   wait_seconds, devices, device, max_retries, attempt, cycles,
                   successes>>

\* parse_target_time(time_str), called with the text in time_input
ParseTargetTime ==
    /\ pc = "parse_target_time"
    /\ IF parse_target_time(time_input).raised
       THEN Raise(InvalidTimeFormat) /\ UNCHANGED target_time
       ELSE /\ GoOn("wait_until_target_time")
            /\ target_time' = [hour |-> parse_target_time(time_input).hour,
                                minute |-> parse_target_time(time_input).minute]
    /\ UNCHANGED <<caller, config_file, missing_keys, time_input, typed, last_wait, config,
                   cache, issued, token, now, wait_from, target_datetime,
                   wait_seconds, devices, device, max_retries, attempt, trace,
                   last_refresh, cycles, successes>>

\* select_device returns `chosen`; main goes on to start_playback(sp, device['id'])
ReturnDevice(chosen) ==
    /\ device' = chosen
    /\ UNCHANGED <<error, raised_at, exit_status>>
    /\ IF caller = "main"
       THEN /\ pc' = "start_playback"
            /\ max_retries' = DefaultMaxRetries
            /\ attempt' = 0
            /\ outcome' = outcome
       ELSE /\ pc' = "done"
            /\ outcome' = "returned"
            /\ UNCHANGED <<max_retries, attempt>>

\* device = select_device(sp, config), up to the prompt
SelectDevice ==
    /\ pc = "select_device"
    /\ trace' = Append(trace, "devices")
    /\ \/ /\ Raise("SpotifyException")
          /\ UNCHANGED <<devices, device, max_retries, attempt>>
       \/ \E fetched \in (IF caller = "main" THEN DeviceLists ELSE AnyDeviceLists) :
            /\ devices' = fetched
            /\ IF fetched = <<>>
               THEN Raise(NoDevicesFound) /\ UNCHANGED <<device, max_retries, attempt>>
               ELSE IF SelectConfigured(fetched, config).prompt
               THEN /\ pc' = "device_prompt"
                    /\ UNCHANGED <<outcome, error, raised_at, exit_status, device,
                                   max_retries, attempt>>
               ELSE ReturnDevice(SelectConfigured(fetched, config).device)
    /\ typed' = <<>>
    /\ UNCHANGED <<caller, config_file, missing_keys, time_input, last_wait, config, cache, issued, token, now, target_time, wait_from,
                   target_datetime, wait_seconds, last_refresh, cycles, successes>>

\* select_device: one round of `while True` at the prompt
DevicePrompt ==
    /\ pc = "device_prompt"
    /\ \E text \in TypedChoices, elapsed \in PromptDelays :
         \E aged \in Aged(cache, elapsed) :
           /\ now' = now + elapsed
           /\ cache' = aged
           /\ trace' = Append(trace, "input_device")
           /\ typed' = IF caller = "main" THEN <<>> ELSE Append(typed, text)
           /\ IF PromptChoice(devices, text).accepted
              THEN ReturnDevice(PromptChoice(devices, text).device)
              ELSE /\ Rejected(trace) < MaxPrompts
                   /\ UNCHANGED <<pc, outcome, error, raised_at, exit_status, device,
                                  max_retries, attempt>>
    /\ UNCHANGED <<caller, config_file, missing_keys, time_input, last_wait, config, issued, token, target_time, wait_from,
                   target_datetime, wait_seconds, devices, last_refresh, cycles,
                   successes>>

\* Variants of the retry test: one that sleeps after the last attempt as well,
\* one that gives up an attempt early.
HasAttemptsLeft_AfterLast(tried, limit) == tried < limit
HasAttemptsLeft_OneShort(tried, limit) == tried < limit - 2

\* start_playback: `if attempt < max_retries - 1`, sleep and go round again
HasAttemptsLeft(tried, limit) == tried < limit - 1

\* start_playback: one iteration of `for attempt in range(max_retries)` up to
\* its return, its raise or its sleep; with the range used up the function
\* falls off its end and returns.
StartPlayback ==
    /\ pc = "start_playback"
    /\ IF attempt >= max_retries
       THEN /\ trace' = trace
            /\ successes' = IF caller = "main" THEN successes + 1 ELSE successes
            /\ GoOn(AfterSuccess(config))
       ELSE \E answer \in ResumeOutcomes :
              CASE answer = "ok" ->
                     /\ trace' = Append(trace, "resume_ok")
                     /\ successes' = IF caller = "main" THEN successes + 1 ELSE successes
                     /\ GoOn(AfterSuccess(config))
                [] answer = "SpotifyException" ->
                     /\ trace' = Append(trace, "resume_error")
                     /\ successes' = successes
                     /\ IF HasAttemptsLeft(attempt, max_retries)
                        THEN /\ pc' = "backoff"
                             /\ UNCHANGED <<outcome, error, raised_at, exit_status>>
                        ELSE Raise(MaxRetriesReached)
                [] OTHER ->
                     /\ trace' = Append(trace, "resume_other")
                     /\ successes' = successes
                     /\ Raise(answer)
    /\ UNCHANGED <<caller, config_file, missing_keys, time_input, typed, last_wait, config, cache, issued, token, now, target_time, wait_from,
                   target_datetime, wait_seconds, devices, device, max_retries,
                   attempt, last_refresh, cycles>>

\* start_playback: time.sleep(5), then the next iteration
Backoff ==
    /\ pc = "backoff"
    /\ \E aged \in Aged(cache, BackoffSeconds) : cache' = aged
    /\ now' = now + BackoffSeconds
    /\ trace' = Append(trace, "sleep_backoff")
    /\ attempt' = attempt + 1
    /\ pc' = "start_playback"
    /\ UNCHANGED <<caller, config_file, missing_keys, time_input, typed, last_wait, config, issued, token, target_time, wait_from,
                   target_datetime, wait_seconds, devices, device, max_retries,
                   last_refresh, cycles, successes, outcome, error, raised_at,
                   exit_status>>

\* Ctrl-C while main is anywhere in its loop
KeyboardInterrupt ==
    /\ caller = "main" /\ pc # "exit"
    /\ Raise("KeyboardInterrupt")
    /\ UNCHANGED <<caller, config_file, missing_keys, time_input, typed, last_wait, config, cache, issued, token, now, target_time, wait_from,
                   target_datetime, wait_seconds, devices, device, max_retries,
                   attempt, trace, last_refresh, cycles, successes>>

(***************************************************************************)
(* Specifications                                                          *)
(***************************************************************************)
\* Instants the clock may show when main starts
MainStarts == {At(0, 9, 0, 0)}

Idle ==
    /\ config = NoConfig /\ issued = 1 /\ token = 0
    /\ target_time = NoTime /\ wait_from = 0 /\ target_datetime = 0 /\ wait_seconds = 0
    /\ devices = <<>> /\ device = NoDevice
    /\ max_retries = 0 /\ attempt = 0
    /\ trace = <<>> /\ last_refresh = NoRefresh
    /\ cycles = 0 /\ successes = 0
    /\ outcome = "running" /\ error = "none" /\ raised_at = "none"
    /\ exit_status = <<>>
    /\ missing_keys = <<>> /\ time_input = <<>> /\ typed = <<>> /\ last_wait = <<>>

\* main()
Init ==
    /\ caller = "main" /\ pc = "load_config"
    /\ config_file \in ConfigFiles
    /\ cache \in InitialCaches
    /\ now \in MainStarts
    /\ Idle

Next ==
    \/ LoadConfig
    \/ GetTokenConfig
    \/ Authenticate
    \/ GetTargetTime
    \/ WaitUntilTargetTime
    \/ TokenCheck
    \/ SelectDevice
    \/ DevicePrompt
    \/ StartPlayback
    \/ Backoff
    \/ KeyboardInterrupt

Spec == Init /\ [][Next]_vars

\* start_playback(sp, device_id, max_retries) entered on its own, for every
\* max_retries from -1 up
InitPlayback ==
    /\ caller = "start_playback" /\ pc = "start_playback"
    /\ config_file = [state |-> "ok", content |-> NoConfig]
    /\ cache = TokenInfo(1)
    /\ now = At(0, 9, 0, 0)
    /\ config = NoConfig /\ issued = 1 /\ token = 1
    /\ target_time = NoTime /\ wait_from = 0 /\ target_datetime = 0 /\ wait_seconds = 0
    /\ devices = <<D1, D2, D3>>
    /\ device \in {D1, D2, D3}
    /\ max_retries \in (0 - 1)..MaxRetriesArg
    /\ attempt = 0
    /\ trace = <<>> /\ last_refresh = NoRefresh
    /\ cycles = 0 /\ successes = 0
    /\ outcome = "running" /\ error = "none" /\ raised_at = "none"
    /\ exit_status = <<>>
    /\ missing_keys = <<>> /\ time_input = <<>> /\ typed = <<>> /\ last_wait = <<>>

NextPlayback ==
    \/ StartPlayback
    \/ Backoff

SpecPlayback == InitPlayback /\ [][NextPlayback]_vars

\* refresh_spotify_token(auth_manager) entered on its own, for every cache
\* content
CachedTokens(n) ==
    {NoToken} \cup
    {[kind |-> "dict", has_access |-> a, access_token |-> IF a THEN k ELSE 0,
      has_refresh |-> r, expired |-> e] :
        k \in 1..n, a \in BOOLEAN, r \in BOOLEAN, e \in BOOLEAN}

InitToken ==
    /\ caller = "refresh_spotify_token" /\ pc = "refresh_spotify_token"
    /\ config_file = [state |-> "ok", content |-> NoConfig]
    /\ issued \in 1..MaxIssued
    /\ cache \in CachedTokens(issued)
    /\ now = At(0, 9, 0, 0)
    /\ config = NoConfig /\ token = 0
    /\ target_time = NoTime /\ wait_from = 0 /\ target_datetime = 0 /\ wait_seconds = 0
    /\ devices = <<>> /\ device = NoDevice
    /\ max_retries = 0 /\ attempt = 0
    /\ trace = <<>> /\ last_refresh = NoRefresh
    /\ cycles = 0 /\ successes = 0
    /\ outcome = "running" /\ error = "none" /\ raised_at = "none"
    /\ exit_status = <<>>
    /\ missing_keys = <<>> /\ time_input = <<>> /\ typed = <<>> /\ last_wait = <<>>

NextToken == Authenticate

SpecToken == InitToken /\ [][NextToken]_vars

\* wait_until_target_time(target_time) entered on its own, at sampled instants
\* for sampled times of day
SampleHours == {0, 9, 23}
SampleMinutes == {0, 30, 59}
SampleSeconds == {0, 1, 59}

InitWait ==
    /\ caller = "wait_until_target_time" /\ pc = "wait_until_target_time"
    /\ config_file = [state |-> "ok", content |-> NoConfig]
    /\ cache = TokenInfo(1)
    /\ \E day \in 0..MaxDay, hour \in SampleHours, minute \in SampleMinutes,
          second \in SampleSeconds : now = At(day, hour, minute, second)
    /\ config = NoConfig /\ issued = 1 /\ token = 0
    /\ target_time \in [hour : SampleHours, minute : SampleMinutes]
    /\ wait_from = 0 /\ target_datetime = 0 /\ wait_seconds = 0
    /\ devices = <<>> /\ device = NoDevice
    /\ max_retries = 0 /\ attempt = 0
    /\ trace = <<>> /\ last_refresh = NoRefresh
    /\ cycles = 0 /\ successes = 0
    /\ outcome = "running" /\ error = "none" /\ raised_at = "none"
    /\ exit_status = <<>>
    /\ missing_keys = <<>> /\ time_input = <<>> /\ typed = <<>> /\ last_wait = <<>>

NextWait == WaitUntilTargetTime

SpecWait == InitWait /\ [][NextWait]_vars

\* get_token_config(config) entered on its own, for every combination of the
\* required keys being absent (None), empty or set
CredentialConfigs ==
    {[NoConfig EXCEPT !.username = u, !.client_id = i, !.client_secret = s,
                      !.redirect_uri = r] :
        u \in KeyValues, i \in KeyValues, s \in KeyValues, r \in KeyValues}

InitCredentials ==
    /\ caller = "get_token_config" /\ pc = "get_token_config"
    /\ config \in CredentialConfigs
    /\ config_file = [state |-> "ok", content |-> NoConfig]
    /\ cache = NoToken /\ issued = 0 /\ token = 0
    /\ now = 0 /\ target_time = NoTime
    /\ wait_from = 0 /\ target_datetime = 0 /\ wait_seconds = 0
    /\ devices = <<>> /\ device = NoDevice
    /\ max_retries = 0 /\ attempt = 0
    /\ trace = <<>> /\ last_refresh = NoRefresh
    /\ cycles = 0 /\ successes = 0
    /\ outcome = "running" /\ error = "none" /\ raised_at = "none"
    /\ exit_status = <<>>
    /\ missing_keys = <<>> /\ time_input = <<>> /\ typed = <<>> /\ last_wait = <<>>

NextCredentials == GetTokenConfig

SpecCredentials == InitCredentials /\ [][NextCredentials]_vars

\* select_device(sp, config) entered on its own, for every device list and
\* every configuration of the two optional keys: absent (None), empty, naming
\* a device that may be listed, or naming none
SelectConfigs ==
    {[NoConfig EXCEPT !.device_id = i, !.device_name = n] :
        i \in {None, "", "d2", "d3", "dX"}, n \in {None, "", "n2", "n3", "nX"}}

InitSelect ==
    /\ caller = "select_device" /\ pc = "select_device"
    /\ config \in SelectConfigs
    /\ config_file = [state |-> "ok", content |-> NoConfig]
    /\ cache = NoToken /\ issued = 0 /\ token = 0
    /\ now = 0 /\ target_time = NoTime
    /\ wait_from = 0 /\ target_datetime = 0 /\ wait_seconds = 0
    /\ devices = <<>> /\ device = NoDevice
    /\ max_retries = 0 /\ attempt = 0
    /\ trace = <<>> /\ last_refresh = NoRefresh
    /\ cycles = 0 /\ successes = 0
    /\ outcome = "running" /\ error = "none" /\ raised_at = "none"
    /\ exit_status = <<>>
    /\ missing_keys = <<>> /\ time_input = <<>> /\ typed = <<>> /\ last_wait = <<>>

NextSelect == SelectDevice \/ DevicePrompt

SpecSelect == InitSelect /\ [][NextSelect]_vars

\* parse_target_time(time_str) entered on its own, for every text of up to
\* MaxTimeLen characters: digits, the colon, and what int() may or may not
\* take around digits
TimeAlphabet == {"0", "2", "4", "6", ":", " ", "+", "_", "x"}
TimeTexts == UNION {[1..n -> TimeAlphabet] : n \in 0..MaxTimeLen}

InitParse ==
    /\ caller = "parse_target_time" /\ pc = "parse_target_time"
    /\ time_input \in TimeTexts
    /\ config = NoConfig
    /\ config_file = [state |-> "ok", content |-> NoConfig]
    /\ cache = NoToken /\ issued = 0 /\ token = 0
    /\ now = 0 /\ target_time = NoTime
    /\ wait_from = 0 /\ target_datetime = 0 /\ wait_seconds = 0
    /\ devices = <<>> /\ device = NoDevice
    /\ max_retries = 0 /\ attempt = 0
    /\ trace = <<>> /\ last_refresh = NoRefresh
    /\ cycles = 0 /\ successes = 0
    /\ outcome = "running" /\ error = "none" /\ raised_at = "none"
    /\ exit_status = <<>>
    /\ missing_keys = <<>> /\ typed = <<>> /\ last_wait = <<>>

NextParse == ParseTargetTime

SpecParse == InitParse /\ [][NextParse]_vars

(***************************************************************************)
(* Properties of start_playback                                            *)
(***************************************************************************)
\* k failed calls, each followed by a backoff sleep
FailedRounds(k) ==
    [i \in 1..(2 * k) |-> IF i % 2 = 1 THEN "resume_error" ELSE "sleep_backoff"]

Count(tr, event) == Cardinality({i \in DOMAIN tr : tr[i] = event})

\* Every answer of the service so far was a remote-API error
OnlyApiErrors == \A i \in DOMAIN trace : trace[i] \in {"resume_error", "sleep_backoff"}

\* C1: with max_retries = n >= 1 and a service that answers every resume call
\* with a remote-API error, start_playback ends by raising "Max retries
\* reached, playback failed", after exactly n calls and n - 1 sleeps: one
\* sleep after each failed call but the last.  Until the n-th call has failed
\* it has not ended.
C1_AlwaysFailing ==
    (max_retries >= 1 /\ OnlyApiErrors)
        => /\ pc = "done" =>
                /\ outcome = "raised" /\ error = MaxRetriesReached
                /\ trace = FailedRounds(max_retries - 1) \o <<"resume_error">>
                /\ Count(trace, "resume_error") = max_retries
                /\ Count(trace, "sleep_backoff") = max_retries - 1
           /\ pc # "done" => Count(trace, "resume_error") < max_retries

C1_Witness ==
    /\ pc = "done" /\ max_retries = DefaultMaxRetries /\ error = MaxRetriesReached
    /\ trace = <<"resume_error", "sleep_backoff", "resume_error", "sleep_backoff",
                 "resume_error">>

\* C2: with max_retries = n >= 1, once a resume call has succeeded after k
\* failed ones (0 <= k < n), start_playback has returned, after exactly k + 1
\* calls and k sleeps, and the successful call is the last thing it did; it
\* returns only so, and it gives up only when n calls have failed, so that a
\* success at call k + 1 <= n is always waited for.
C2_FailsThenSucceeds ==
    max_retries >= 1 =>
        /\ Count(trace, "resume_ok") > 0 =>
             /\ pc = "done" /\ outcome = "returned"
             /\ \E k \in 0..(max_retries - 1) :
                  /\ trace = FailedRounds(k) \o <<"resume_ok">>
                  /\ Count(trace, "resume_error") + Count(trace, "resume_ok") = k + 1
                  /\ Count(trace, "sleep_backoff") = k
        /\ outcome = "returned" => Count(trace, "resume_ok") = 1
        /\ error = MaxRetriesReached => Count(trace, "resume_error") = max_retries
        /\ (pc = "start_playback" /\ attempt > 0) =>
             /\ attempt < max_retries
             /\ trace = FailedRounds(attempt)

C2_Witness ==
    /\ pc = "done" /\ outcome = "returned" /\ max_retries = DefaultMaxRetries
    /\ trace = <<"resume_error", "sleep_backoff", "resume_error", "sleep_backoff",
                 "resume_ok">>

(***************************************************************************)
(* Properties of wait_until_target_time                                    *)
(***************************************************************************)
TimeOfDay(dt) == dt % SecondsPerDay

\* The instants, over the days the model spans, whose time of day is t
Occurrences(t) == {Combine(day, t) : day \in 0..(MaxDay + 2)}

\* C3, as claimed: the instant waited for is the soonest instant on or after
\* `now` whose time of day is the target, also when `now` is exactly the
\* target time of day.
C3_SoonestOnOrAfter ==
    pc = "done" =>
        /\ target_datetime \in Occurrences(target_time)
        /\ target_datetime >= wait_from
        /\ \A t \in Occurrences(target_time) : t >= wait_from => target_datetime <= t

\* C3, amended: the instant waited for is the soonest instant strictly after
\* `now` whose time of day is the target; when `now` is exactly the target
\* time of day it is the same time on the following day.
C3_SoonestStrictlyAfter ==
    pc = "done" =>
        /\ target_datetime \in Occurrences(target_time)
        /\ TimeOfDay(target_datetime) = Combine(0, target_time)
        /\ target_datetime > wait_from
        /\ \A t \in Occurrences(target_time) : t > wait_from => target_datetime <= t
        /\ TimeOfDay(wait_from) = Combine(0, target_time)
             => target_datetime = wait_from + SecondsPerDay
        /\ now >= target_datetime

C3_Witness ==
    /\ pc = "done"
    /\ TimeOfDay(wait_from) = Combine(0, target_time)
    /\ target_datetime = wait_from + SecondsPerDay

(***************************************************************************)
(* Properties of the token handling                                        *)
(***************************************************************************)
TokenEvents == {"is_token_expired", "get_access_token", "refresh_access_token"}

\* C4: in a cycle that reaches the first resume call, nothing that calls the
\* service or blocks lies between the last token expiry check or refresh and
\* that call.
C4_CheckedJustBeforeResume ==
    \A i \in DOMAIN trace :
        (trace[i] \in ResumeEvents /\ \A j \in 1..(i - 1) : trace[j] \notin ResumeEvents)
            => \E c \in 1..(i - 1) :
                 /\ trace[c] \in TokenEvents
                 /\ \A k \in (c + 1)..(i - 1) :
                      trace[k] \notin NetworkEvents \cup BlockingEvents

\* C5: refresh_spotify_token follows the decision table.  A cached token that
\* is not expired is returned as it is, with no request and no refresh; a
\* cached, expired token with a stored refresh token is refreshed exactly
\* once, with no new-token request, and the function returns the refreshed
\* access token; with nothing cached there is exactly one new-token request
\* and no refresh, and the function raises "Token retrieval failed" exactly
\* when the request went through and the cache holds no access token after.
C5_DecisionTable ==
    last_refresh.called =>
        LET before == last_refresh.before
            events == last_refresh.events
            requests == Count(events, "get_access_token")
            refreshes == Count(events, "refresh_access_token")
        IN  /\ (before.kind = "dict" /\ ~before.expired /\ before.has_access) =>
                 /\ last_refresh.error = "none"
                 /\ last_refresh.result = before.access_token
                 /\ requests = 0 /\ refreshes = 0
                 /\ cache = before
            /\ (before.kind = "dict" /\ before.expired /\ before.has_refresh) =>
                 /\ requests = 0 /\ refreshes = 1
                 /\ last_refresh.error \in {"none", "SpotifyOauthError"}
                 /\ last_refresh.error = "none" =>
                      /\ cache.has_access /\ ~cache.expired
                      /\ cache.access_token > before.access_token
                      /\ last_refresh.result = cache.access_token
            /\ before.kind = "None" =>
                 /\ requests = 1 /\ refreshes = 0
                 /\ last_refresh.error \in
                      {"none", "SpotifyOauthError", TokenRetrievalFailed}
                 /\ last_refresh.error # "SpotifyOauthError" =>
                      (last_refresh.error = TokenRetrievalFailed
                         <=> (cache.kind = "None" \/ ~cache.has_access))
                 /\ last_refresh.error = "none" =>
                      last_refresh.result = cache.access_token

C5_Witness ==
    /\ last_refresh.called
    /\ last_refresh.before.kind = "None"
    /\ cache.kind = "dict" /\ ~cache.has_access
    /\ last_refresh.error = TokenRetrievalFailed

(***************************************************************************)
(* Properties of main                                                      *)
(***************************************************************************)
RequiredKeys == {"username", "client_id", "client_secret", "redirect_uri"}

\* The configuration loaded in this cycle lacks a required key, or holds it empty
LoadedIncomplete ==
    /\ cycles >= 1 /\ config_file.state = "ok"
    /\ \E k \in RequiredKeys : config[k] = None \/ config[k] = ""

\* C6: in a cycle whose configuration lacks a required key or holds it empty,
\* no call of the service is made: the cycle is at get_token_config or the
\* loop has ended there (or by Ctrl-C), in its first cycle.
C6_FailsBeforeAnyNetworkCall ==
    LoadedIncomplete =>
        /\ \A i \in DOMAIN trace : trace[i] \notin NetworkEvents
        /\ pc \in {"get_token_config", "exit"}
        /\ pc = "exit" =>
             \/ error = "KeyboardInterrupt"
             \/ (error = IncompleteTokenConfiguration /\ raised_at = "get_token_config"
                 /\ outcome = "fatal")
        /\ cycles = 1

C6_Witness ==
    /\ pc = "exit" /\ error = IncompleteTokenConfiguration
    /\ config.username = "v" /\ config.client_id = "v"
    /\ config.client_secret = None /\ config.redirect_uri = ""
    /\ trace = <<>>

Stages ==
    {"load_config", "get_token_config", "refresh_spotify_token", "get_target_time",
     "token_check", "select_device", "start_playback"}

\* C7: an exception other than Ctrl-C, raised in whatever stage, ends the loop
\* as fatal at once: in every state after it the loop is at its exit with the
\* fatal outcome, and nothing can run from there.
C7_FailureIsFatalAndTerminal ==
    error \notin {"none", "KeyboardInterrupt"} =>
        /\ pc = "exit" /\ outcome = "fatal"
        /\ raised_at \in Stages
        /\ ~ENABLED Next

C7_Witness ==
    /\ pc = "exit" /\ outcome = "fatal"
    /\ error = MaxRetriesReached /\ raised_at = "start_playback"
    /\ Count(trace, "resume_error") = DefaultMaxRetries

\* C8: Ctrl-C, at whatever point of the loop, ends the loop in that very step
\* with the cancelled outcome, which is not the fatal one: no stage runs, no
\* call is made, no time passes; and no step is ever taken from the exit.
C8_CancelEndsLoopAtOnce ==
    [][/\ pc # "exit"
       /\ (error' = "KeyboardInterrupt") =>
            /\ pc' = "exit" /\ outcome' = "cancelled" /\ outcome' # "fatal"
            /\ UNCHANGED <<trace, cycles, successes, now, cache, issued, token>>]_vars

C8_Witness ==
    /\ pc = "exit" /\ outcome = "cancelled" /\ error = "KeyboardInterrupt"
    /\ raised_at = "backoff"

\* C9: the exit status is zero when the loop ends by Ctrl-C and non-zero when
\* it ends by a fatal error.
C9_ExitStatusTellsFatal ==
    pc = "exit" =>
        /\ outcome = "cancelled" => exit_status = <<0>>
        /\ outcome = "fatal" => (exit_status # <<>> /\ exit_status # <<0>>)

\* C10, as claimed: after a successful playback the loop ends when the
\* configuration asks for single-shot, and goes back to load_config otherwise.
C10_DoneFollowsFlag ==
    [][successes' = successes + 1 =>
         IF config.single_shot THEN pc' = "exit" ELSE pc' = "load_config"]_vars

\* C10, amended: after every successful playback the loop goes back to
\* load_config for another cycle, whatever the configuration holds.
C10_DoneAlwaysLoops ==
    [][successes' = successes + 1 =>
         /\ pc = "start_playback" /\ Count(trace', "resume_ok") = 1
         /\ pc' = "load_config" /\ outcome' = "running" /\ exit_status' = <<>>]_vars

C10_Witness ==
    /\ pc = "get_token_config" /\ cycles = 2 /\ successes = 1
    /\ config.single_shot

(***************************************************************************)
(* Properties of get_token_config                                          *)
(***************************************************************************)
\* The required keys the configuration lacks or holds empty
AbsentOrEmpty == {k \in RequiredKeys : config[k] = None \/ config[k] = ""}

Reported == {missing_keys[i] : i \in DOMAIN missing_keys}

\* C11: when get_token_config has ended, the keys it reported as missing are
\* exactly the required keys that are absent or empty in the configuration,
\* each once; it raised "Incomplete token configuration" if there is such a
\* key and returned if there is none.
C11_ReportsExactlyTheMissingKeys ==
    (caller = "get_token_config" /\ pc = "done")
        => /\ Reported = AbsentOrEmpty
           /\ Len(missing_keys) = Cardinality(AbsentOrEmpty)
           /\ AbsentOrEmpty # {}
                => outcome = "raised" /\ error = IncompleteTokenConfiguration
           /\ AbsentOrEmpty = {} => outcome = "returned"

\* client_secret and redirect_uri are missing, username and client_id are set
C11_Witness ==
    /\ caller = "get_token_config" /\ pc = "done"
    /\ outcome = "raised" /\ error = IncompleteTokenConfiguration
    /\ config.username = "v" /\ config.client_id = "v"
    /\ config.client_secret = None /\ config.redirect_uri = ""
    /\ missing_keys = <<"client_secret", "redirect_uri">>

(***************************************************************************)
(* Properties of select_device                                             *)
(***************************************************************************)
\* select_device, entered on its own, has fetched a list of several devices
SeveralFetched == caller = "select_device" /\ Len(devices) > 1

\* The places in the list of the devices that carry the configured id, and
\* of those that carry the configured name
ListedById == {i \in DOMAIN devices : devices[i].id = config.device_id}
ListedByName == {i \in DOMAIN devices : devices[i].name = config.device_name}

\* select_device has returned the i-th listed device without asking
ReturnedUnasked(i) ==
    /\ pc = "done" /\ outcome = "returned" /\ error = "none"
    /\ device = devices[i]
    /\ typed = <<>> /\ trace = <<"devices">>

\* C12: with several devices fetched and a configured device_id that is the
\* id of a listed device, select_device has returned that device without
\* asking, whatever device_name holds and wherever the device is listed.
C12_IdMatchIsReturned ==
    (SeveralFetched /\ ListedById # {})
        => \E i \in ListedById : ReturnedUnasked(i)

\* device_id names the last listed device, device_name another one
C12_Witness ==
    /\ SeveralFetched /\ pc = "done"
    /\ devices = <<D1, D2, D3>>
    /\ config.device_id = "d3" /\ config.device_name = "n2"
    /\ device = D3

\* C13: with several devices fetched, no listed device carrying the configured
\* device_id (be it absent, or configured and unmatched) and a listed device
\* carrying the configured device_name, select_device has returned a device
\* of that name without asking.
C13_NameMatchAfterUnmatchedId ==
    (SeveralFetched /\ ListedById = {} /\ ListedByName # {})
        => \E i \in ListedByName : ReturnedUnasked(i)

\* device_id names no listed device, device_name names the third one, and the
\* first one has been returned
C13_UnmatchedIdHidesName ==
    /\ SeveralFetched /\ pc = "done"
    /\ devices = <<D1, D2, D3>>
    /\ config.device_id = "dX" /\ config.device_name = "n3"
    /\ device = D1

\* A value of config.json that configures something: neither absent nor empty
Configured(value) == value # None /\ value # ""

\* C14: with several devices fetched and a device_id and/or a device_name
\* configured, none of which is carried by a listed device, select_device has
\* returned the first device of the list, without asking and without error.
C14_NoMatchFallsBackToFirst ==
    (/\ SeveralFetched
     /\ Configured(config.device_id) \/ Configured(config.device_name)
     /\ ListedById = {} /\ ListedByName = {})
        => ReturnedUnasked(1)

\* Only device_name is configured, and no listed device carries it
C14_Witness ==
    /\ SeveralFetched /\ pc = "done"
    /\ devices = <<D3, D1>>
    /\ config.device_id = None /\ config.device_name = "n2"
    /\ device = D3 /\ outcome = "returned" /\ typed = <<>>

\* The text is an integer k with 1 <= k <= number of devices
ValidChoice(text) ==
    /\ ~PyInt(text).raised
    /\ 1 <= PyInt(text).value /\ PyInt(text).value <= Len(devices)

\* C15: with several devices fetched and neither device_id nor device_name
\* configured, select_device asks; it has returned only if the last text
\* typed is the first one that is an integer k with 1 <= k <= number of
\* devices, and then the k-th device of the list; after texts that are not
\* (not numbers, 0, negative or too large) it is asking again, with no
\* error.
C15_FirstValidChoiceIsReturned ==
    (/\ SeveralFetched
     /\ ~Configured(config.device_id) /\ ~Configured(config.device_name))
        => /\ \A i \in 1..(Len(typed) - 1) : ~ValidChoice(typed[i])
           /\ IF typed # <<>> /\ ValidChoice(typed[Len(typed)])
              THEN /\ pc = "done" /\ outcome = "returned" /\ error = "none"
                   /\ device = devices[PyInt(typed[Len(typed)]).value]
              ELSE /\ pc = "device_prompt" /\ outcome = "running" /\ error = "none"
                   /\ device = NoDevice

\* "0" was typed, then "2": the second device has been returned
C15_Witness ==
    /\ SeveralFetched /\ pc = "done"
    /\ devices = <<D3, D1, D2>>
    /\ typed = << <<"0">>, <<"2">> >>
    /\ device = D1

\* C16: when the list fetched holds one device, select_device has returned
\* it without asking, whatever device_id and device_name are configured; it
\* never returns with an empty list: fetching one ends in "No devices found".
C16_SingleDeviceOrNone ==
    caller = "select_device"
        => /\ Len(devices) = 1 => ReturnedUnasked(1)
           /\ (pc = "done" /\ devices = <<>>)
                => /\ outcome = "raised" /\ typed = <<>>
                   /\ error \in {NoDevicesFound, "SpotifyException"}

\* The only device is not the one device_id and device_name name
C16_Witness ==
    /\ caller = "select_device" /\ pc = "done"
    /\ devices = <<D1>> /\ device = D1
    /\ config.device_id = "d2" /\ config.device_name = "n3"

(***************************************************************************)
(* Properties of parse_target_time                                         *)
(***************************************************************************)
\* The text is two digits, a colon, two digits
StrictShape(s) ==
    /\ Len(s) = 5 /\ s[3] = ":"
    /\ \A i \in {1, 2, 4, 5} : s[i] \in Digits

StrictHour(s) == 10 * DigitVal(s[1]) + DigitVal(s[2])
StrictMinute(s) == 10 * DigitVal(s[4]) + DigitVal(s[5])

\* Strict "HH:MM" with the hour in [0, 24) and the minute in [0, 60)
StrictTime(s) ==
    /\ StrictShape(s)
    /\ StrictHour(s) < HoursPerDay /\ StrictMinute(s) < MinutesPerHour

\* C17: parse_target_time returns for exactly the texts of the strict form
\* "HH:MM" with the hour in [0, 24) and the minute in [0, 60), and then the
\* pair written; for every other text, also with a component of one digit, a
\* sign or blanks around it, it raises the invalid-time error.
C17_AcceptsExactlyStrictTimes ==
    (caller = "parse_target_time" /\ pc = "done")
        => IF StrictTime(time_input)
           THEN /\ outcome = "returned"
                /\ target_time = [hour |-> StrictHour(time_input),
                                   minute |-> StrictMinute(time_input)]
           ELSE outcome = "raised" /\ error = InvalidTimeFormat

\* "2:4" has been taken for 02:04
C17_LooseTimeAccepted ==
    /\ caller = "parse_target_time" /\ pc = "done"
    /\ time_input = <<"2", ":", "4">>
    /\ outcome = "returned" /\ target_time = [hour |-> 2, minute |-> 4]

(***************************************************************************)
(* Properties of start_playback for every max_retries                      *)
(***************************************************************************)
\* C18: whatever max_retries is, 0 and negative values included,
\* start_playback has returned only if a resume call it made came back
\* without error.
C18_ReturnsOnlyAfterAcceptedCall ==
    (caller = "start_playback" /\ pc = "done" /\ outcome = "returned")
        => Count(trace, "resume_ok") >= 1

\* With max_retries = 0 it has returned without any call
C18_ReturnedWithoutCall ==
    /\ caller = "start_playback" /\ pc = "done" /\ outcome = "returned"
    /\ max_retries = 0 /\ trace = <<>>

\* With max_retries >= 1 a return does follow an accepted call
C18_HoldsForPositive ==
    (caller = "start_playback" /\ pc = "done" /\ outcome = "returned"
     /\ max_retries >= 1)
        => trace[Len(trace)] = "resume_ok"

(***************************************************************************)
(* Properties of the waits of successive cycles                            *)
(***************************************************************************)
\* main runs with a config.json that holds an alarm_time
AlarmConfigured ==
    /\ caller = "main" /\ config_file.state = "ok"
    /\ Configured(config_file.content.alarm_time)

\* C19: in main's loop with a configured alarm_time, which stays the same,
\* the instant a cycle waits for is strictly later than the instant the wait
\* of the cycle before ended; when that cycle was over within 24 hours of the
\* instant it waited for, the two instants are exactly one day apart.
C19_OneAlarmPerDay ==
    [][(AlarmConfigured /\ pc = "wait_until_target_time" /\ pc' = "token_check"
        /\ last_wait # <<>>)
          => LET previous == last_wait[1]
                 this == last_wait'[1]
             IN  /\ this.target > previous.ended
                 /\ now < previous.target + SecondsPerDay
                       => this.target = previous.target + SecondsPerDay]_vars

\* Two cycles have waited, the second one a day after the first
C19_Witness ==
    /\ AlarmConfigured /\ cycles = 2 /\ successes = 1 /\ pc = "token_check"
    /\ config.alarm_time = "09:00"
    /\ last_wait = <<[target |-> At(2, 9, 0, 0), ended |-> now]>>

(***************************************************************************)
(* Properties of the duration wait_until_target_time computes              *)
(***************************************************************************)
\* C20: for every now and every target time of day, the duration computed is
\* more than zero and at most 24 hours; the instant waited for is on the
\* calendar date of now exactly when the target time of day is later than
\* now's, and on the following date otherwise; so the function sleeps, and
\* never takes the branch that skips the sleep.
C20_WaitIsPositiveWithinADay ==
    (caller = "wait_until_target_time" /\ pc = "done")
        => /\ wait_seconds = target_datetime - wait_from
           /\ 0 < wait_seconds /\ wait_seconds <= SecondsPerDay
           /\ TimeOfDay(target_datetime) = Combine(0, target_time)
           /\ Date(target_datetime) =
                 IF Combine(0, target_time) > TimeOfDay(wait_from)
                 THEN Date(wait_from)
                 ELSE Date(wait_from) + 1
           /\ trace = <<"sleep_until">>

\* Entered at the target time of day to the second: a wait of 24 hours
C20_Witness ==
    /\ caller = "wait_until_target_time" /\ pc = "done"
    /\ TimeOfDay(wait_from) = Combine(0, target_time)
    /\ wait_seconds = SecondsPerDay
    /\ Date(target_datetime) = Date(wait_from) + 1
    /\ trace = <<"sleep_until">>

====
